---- MODULE Spec2Model ----
(***************************************************************************)
(* Model of main() of src/src/SimpleWorkflowSimulator.cpp: the part that   *)
(* runs after the WRENCH simulation is set up -- file staging, launch,     *)
(* the aggregation loop over the task-completion trace, and the CSV report *)
(* appended to /home/wrench/datas/execution_output.csv.                    *)
(*                                                                         *)
(* One behaviour is a sequence of non-overlapping process invocations of   *)
(* the same command line (same platform, same workflow): the CSV file is   *)
(* the only state that survives from one invocation to the next.           *)
(*                                                                         *)
(* C++ doubles are modelled as exact non-negative rationals plus the two   *)
(* non-finite values a division by zero produces (inf, nan).  All finite   *)
(* inputs are small integers: every ratio term is a dyadic fraction, hence *)
(* exact as a double, and no quotient by the trace size falls on a         *)
(* two-decimal rounding tie unless it is exact too, so the text written    *)
(* is the text the double would give.                                      *)
(***************************************************************************)
EXTENDS Integers, Sequences, FiniteSets, TLC

(***************************************************************************)
(* Bounds of the model.                                                    *)
(***************************************************************************)
MaxTasks == 2        \* longest trace
MaxHosts == 2        \* longest host list
MaxRuns == 2         \* process invocations in one behaviour

(***************************************************************************)
(* double arithmetic                                                       *)
(***************************************************************************)
RECURSIVE Gcd(_, _)
Gcd(a, b) == IF b = 0 THEN a ELSE Gcd(b, a % b)

\* a finite, non-negative double n/d, in lowest terms
Fin(n, d) == LET g == Gcd(n, d) IN [k |-> "fin", n |-> n \div g, d |-> d \div g]

Inf == [k |-> "inf", n |-> 0, d |-> 1]
NaN == [k |-> "nan", n |-> 0, d |-> 1]
Zero == Fin(0, 1)
FromInt(i) == Fin(i, 1)

\* x + y (operands are never negative here)
DAdd(x, y) ==
    IF x.k = "nan" \/ y.k = "nan" THEN NaN
    ELSE IF x.k = "inf" \/ y.k = "inf" THEN Inf
    ELSE Fin(x.n * y.d + y.n * x.d, x.d * y.d)

\* x / y with IEEE-754 semantics: a zero divisor gives inf, or nan for 0/0
DDiv(x, y) ==
    IF x.k = "nan" \/ y.k = "nan" THEN NaN
    ELSE IF y.k = "inf" THEN (IF x.k = "inf" THEN NaN ELSE Zero)
    ELSE IF y.n = 0 THEN (IF x.k = "fin" /\ x.n = 0 THEN NaN ELSE Inf)
    ELSE IF x.k = "inf" THEN Inf
    ELSE Fin(x.n * y.d, x.d * y.n)

\* operator<< of a double under std::fixed << std::setprecision(2): the value
\* rounded to hundredths (ties to even, as printf does on the exact value),
\* or the text printf gives a non-finite value (0.0/0.0 prints as "-nan").
Fixed2(x) ==
    IF x.k = "inf" THEN "inf"
    ELSE IF x.k = "nan" THEN "-nan"
    ELSE LET q == (100 * x.n) \div x.d
             r == (100 * x.n) % x.d
             h == IF 2 * r > x.d THEN q + 1
                  ELSE IF 2 * r < x.d THEN q
                  ELSE IF q % 2 = 0 THEN q ELSE q + 1
             c == h % 100
         IN ToString(h \div 100) \o "." \o (IF c < 10 THEN "0" ELSE "") \o ToString(c)

(***************************************************************************)
(* Inputs: what the simulation hands to the code after launch()            *)
(***************************************************************************)
\* a wrench::WorkflowTask::WorkflowTaskExecution that starts at time s and whose
\* read-input, compute and write-output phases last a, c and o seconds
Execution(s, a, c, o) ==
    [read_input_start |-> s, read_input_end |-> s + a,
     computation_start |-> s + a, computation_end |-> s + a + c,
     write_output_start |-> s + a + c, write_output_end |-> s + a + c + o]

\* records of attempts that completed: with I/O, without I/O, without any
\* duration at all
FinalExecutions ==
    {Execution(0, 2, 4, 0), Execution(1, 2, 3, 2), Execution(1, 0, 3, 0),
     Execution(0, 0, 0, 0)}

\* the record of an earlier attempt that failed and was retried
FailedExecution == Execution(0, 1, 7, 1)

\* how many failed attempts a retried task can have had
RetryCounts == {1, 2}

\* getExecutionHistory(): a stack, the most recent record on top (last here)
History(e, retries) ==
    [i \in 1..(retries + 1) |-> IF i = retries + 1 THEN e ELSE FailedExecution]

Histories ==
    {History(e, 0) : e \in FinalExecutions}
        \cup {History(Execution(1, 2, 3, 2), r) : r \in RetryCounts}

Top(history) == history[Len(history)]

RECURSIVE SeqsUpTo(_, _)
SeqsUpTo(S, n) ==
    IF n = 0 THEN {<<>>}
    ELSE LET shorter == SeqsUpTo(S, n - 1)
         IN shorter \cup {Append(s, e) : s \in {t \in shorter : Len(t) = n - 1}, e \in S}

\* getTrace<SimulationTimestampTaskCompletion>(): one entry per completed task
Traces == SeqsUpTo(Histories, MaxTasks)

\* hosts of the platform: name, getHostNumCores, getEnergyConsumed (joules)
HostPool ==
    {[name |-> "WMSHost", cores |-> 4, energy |-> 40],
     [name |-> "BatchNode1", cores |-> 1, energy |-> 0],
     [name |-> "CloudNode1", cores |-> 2, energy |-> 25]}

\* getHostnameList(): host names are unique
HostLists ==
    {s \in SeqsUpTo(HostPool, MaxHosts) :
        Len(s) >= 1 /\ \A i, j \in 1..Len(s) : i # j => s[i].name # s[j].name}

RECURSIVE LastEnd(_)
LastEnd(tr) ==
    IF tr = <<>> THEN 0
    ELSE LET rest == LastEnd(Tail(tr))
             e == Top(Head(tr)).write_output_end
         IN IF e > rest THEN e ELSE rest

\* workflow->getCompletionDate(): no earlier than the last completed task
CompletionDates(tr) == {d \in {0, 10} : d >= LastEnd(tr)}

Header ==
    "runid,host_name,num_cores,num_tasks,trace_size,failed_tasks,compute_time,IO_time_input,IO_time_output,Comm/Comp_Ratio,power,completion_date"

HeaderLine == [kind |-> "header", text |-> Header]

VARIABLES
    pc,                 \* where main() is
    trace,              \* the trace launch() produces
    hosts,              \* the platform's host list
    num_tasks_wf,       \* workflow->getNumberOfTasks()
    completion_date,    \* workflow->getCompletionDate()
    item,               \* position of the range-for over trace
    num_failed_tasks,
    ratio,              \* computation_communication_ratio_average
    io_time_input,
    io_time_output,
    compute_time,
    is_open,            \* csvFile.is_open()
    failbit,            \* csvFile.fail()
    index,              \* the row loop's index
    file,               \* the CSV file on disk: [exists, lines]
    cerr,               \* what this invocation wrote to std::cerr
    exit_code,          \* -1 while running
    runs,               \* invocations started so far
    opened_runs,        \* invocations whose open succeeded
    file_at_open,       \* the file's lines when this invocation called open
    events              \* calls this invocation made on csvFile, in order

inputs == <<trace, hosts, num_tasks_wf, completion_date>>
aggregates == <<num_failed_tasks, ratio, io_time_input, io_time_output, compute_time>>
locals == <<item, aggregates, is_open, failbit, index>>
history == <<runs, opened_runs, file_at_open, events>>
vars == <<pc, inputs, locals, file, cerr, exit_code, history>>

FreshLocals ==
    /\ item = 1
    /\ num_failed_tasks = 0
    /\ ratio = Zero
    /\ io_time_input = Zero
    /\ io_time_output = Zero
    /\ compute_time = Zero
    /\ is_open = FALSE
    /\ failbit = FALSE
    /\ index = 0

Init ==
    /\ pc = "stage"
    /\ trace \in Traces
    /\ hosts \in HostLists
    /\ num_tasks_wf \in {Len(trace), Len(trace) + 1}
    /\ completion_date \in CompletionDates(trace)
    /\ FreshLocals
    /\ file \in {[exists |-> FALSE, lines |-> <<>>], [exists |-> TRUE, lines |-> <<>>]}
    /\ cerr = <<>>
    /\ exit_code = -1
    /\ runs = 1
    /\ opened_runs = 0
    /\ file_at_open = <<>>
    /\ events = <<>>

(***************************************************************************)
(* Lines 175-202: staging the input files and launching the simulation.    *)
(* A std::runtime_error is printed and main returns 0.                     *)
(***************************************************************************)
StageFiles ==
    /\ pc = "stage"
    /\ pc' = "launch"
    /\ UNCHANGED <<inputs, locals, file, cerr, exit_code, history>>

StageFilesThrows ==
    /\ pc = "stage"
    /\ cerr' = Append(cerr, "Exception: stageFile")
    /\ exit_code' = 0
    /\ pc' = "done"
    /\ UNCHANGED <<inputs, locals, file, history>>

Launch ==
    /\ pc = "launch"
    /\ pc' = "aggregate"
    /\ UNCHANGED <<inputs, locals, file, cerr, exit_code, history>>

LaunchThrows ==
    /\ pc = "launch"
    /\ cerr' = Append(cerr, "Exception: launch")
    /\ exit_code' = 0
    /\ pc' = "done"
    /\ UNCHANGED <<inputs, locals, file, history>>

(***************************************************************************)
(* Lines 214-232: the aggregation loop.                                    *)
(***************************************************************************)
\* every retry counted, not every retried task
CountRetries(n, hist) == n + (Len(hist) - 1)

\* lines 222-225 (an unsigned long: no trace is long enough to wrap it)
CountFailure(n, hist) == IF Len(hist) > 1 THEN n + 1 ELSE n

\* lines 226-228: the three durations of the task's most recent record
IoTimeInput(hist) == FromInt(Top(hist).read_input_end - Top(hist).read_input_start)
IoTimeOutput(hist) == FromInt(Top(hist).write_output_end - Top(hist).write_output_start)
ComputeTime(hist) == FromInt(Top(hist).computation_end - Top(hist).computation_start)

\* line 229: the term the task adds to the ratio's running sum
RatioTerm(hist) == DDiv(ComputeTime(hist), DAdd(IoTimeInput(hist), IoTimeOutput(hist)))

AggregateStep ==
    /\ pc = "aggregate"
    /\ item <= Len(trace)
    /\ LET hist == trace[item]
       IN /\ num_failed_tasks' = CountFailure(num_failed_tasks, hist)
          /\ io_time_input' = IoTimeInput(hist)
          /\ io_time_output' = IoTimeOutput(hist)
          /\ compute_time' = ComputeTime(hist)
          /\ ratio' = DAdd(ratio, RatioTerm(hist))
    /\ item' = item + 1
    /\ UNCHANGED <<pc, inputs, is_open, failbit, index, file, cerr, exit_code, history>>

\* line 232, after the loop
AggregateDone ==
    /\ pc = "aggregate"
    /\ item > Len(trace)
    /\ ratio' = DDiv(ratio, FromInt(Len(trace)))
    /\ pc' = "open"
    /\ UNCHANGED <<inputs, item, num_failed_tasks, io_time_input, io_time_output,
                   compute_time, is_open, failbit, index, file, cerr, exit_code, history>>

(***************************************************************************)
(* Lines 234-250: opening the report and the header.                       *)
(***************************************************************************)
\* an open that truncates (std::ios::trunc, or no mode at all)
OpenedLinesTruncated(f) == <<>>

\* what open(..., std::ios::app) leaves of the file's content
OpenedLines(f) == f.lines

OpenReport ==
    /\ pc = "open"
    /\ file' = [exists |-> TRUE, lines |-> OpenedLines(file)]
    /\ is_open' = TRUE
    /\ file_at_open' = file.lines
    /\ opened_runs' = opened_runs + 1
    /\ events' = Append(events, "open")
    /\ pc' = "header"
    /\ UNCHANGED <<inputs, item, aggregates, failbit, index, cerr, exit_code, runs>>

\* an open failure that ends the program with a failure exit code
OpenReportFailsAndExits ==
    /\ pc = "open"
    /\ failbit' = TRUE
    /\ cerr' = Append(cerr, "Erro ao abrir o arquivo CSV!")
    /\ file_at_open' = file.lines
    /\ events' = Append(events, "open_failed")
    /\ exit_code' = 1
    /\ pc' = "done"
    /\ UNCHANGED <<inputs, item, aggregates, is_open, index, file, runs, opened_runs>>

\* the open fails (permissions, missing directory): failbit, two lines on cerr
OpenReportFails ==
    /\ pc = "open"
    /\ failbit' = TRUE
    /\ cerr' = cerr \o <<"Erro ao abrir o arquivo CSV!", "Erro do sistema: strerror(errno)">>
    /\ file_at_open' = file.lines
    /\ events' = Append(events, "open_failed")
    /\ pc' = "header"
    /\ UNCHANGED <<inputs, item, aggregates, is_open, index, file, exit_code,
                   runs, opened_runs>>

\* a tellp() that reports the start of the file after an append-mode open
TellpAtStart == IF failbit THEN -1 ELSE 0

\* csvFile.tellp(): -1 on a failed stream, else the write position, which an
\* append-mode open leaves at the end of the file (0 iff the file holds nothing)
Tellp == IF failbit THEN -1 ELSE Len(file.lines)

\* line 245
HeaderNeeded(pos) == pos = 0

\* csvFile << line: nothing happens on a stream that is not good
Put(f, line) == IF is_open /\ ~failbit THEN [f EXCEPT !.lines = Append(@, line)] ELSE f

WriteHeader ==
    /\ pc = "header"
    /\ IF HeaderNeeded(Tellp)
          THEN /\ file' = Put(file, HeaderLine)
               /\ events' = Append(events, "header")
          ELSE /\ file' = file
               /\ events' = Append(events, "no_header")
    /\ pc' = "rows"
    /\ UNCHANGED <<inputs, locals, cerr, exit_code, runs, opened_runs, file_at_open>>

(***************************************************************************)
(* Lines 252-282: one row per host, close, return 0.                       *)
(***************************************************************************)
\* a loop bound that stops one host short
lista_de_nos_short == Len(hosts) - 1

\* line 252
lista_de_nos == Len(hosts)

\* the run label taken from the trace size instead of the workflow's task count
RunIdOfTrace(num_tasks) == "extk-" \o ToString(Len(trace))

\* line 258
RunId(num_tasks) == "extk-" \o ToString(num_tasks)

\* line 265
Watts(energy_consumed, conclusion_time) ==
    DDiv(FromInt(energy_consumed), FromInt(conclusion_time))

\* lines 267-278: the line written for a host
Row(host) ==
    [kind |-> "row",
     runid |-> RunId(num_tasks_wf),
     host_name |-> host.name,
     num_cores |-> ToString(host.cores),
     num_tasks |-> ToString(num_tasks_wf),
     trace_size |-> ToString(Len(trace)),
     failed_tasks |-> ToString(num_failed_tasks),
     compute_time |-> Fixed2(compute_time),
     IO_time_input |-> Fixed2(io_time_input),
     IO_time_output |-> Fixed2(io_time_output),
     ratio |-> Fixed2(ratio),
     power |-> Fixed2(Watts(host.energy, completion_date)),
     completion_date |-> Fixed2(FromInt(completion_date))]

\* a row loop that repeats the header decision for every row
RowStepWithHeaderCheck ==
    /\ pc = "rows"
    /\ index < Len(hosts)
    /\ file' = Put(IF Tellp = 0 THEN Put(file, HeaderLine) ELSE file, Row(hosts[index + 1]))
    /\ events' = events \o <<IF Tellp = 0 THEN "header" ELSE "no_header", "row">>
    /\ index' = index + 1
    /\ UNCHANGED <<pc, inputs, item, aggregates, is_open, failbit, cerr, exit_code,
                   runs, opened_runs, file_at_open>>

RowStep ==
    /\ pc = "rows"
    /\ index < lista_de_nos
    /\ file' = Put(file, Row(hosts[index + 1]))
    /\ events' = Append(events, "row")
    /\ index' = index + 1
    /\ UNCHANGED <<pc, inputs, item, aggregates, is_open, failbit, cerr, exit_code,
                   runs, opened_runs, file_at_open>>

CloseReport ==
    /\ pc = "rows"
    /\ index >= lista_de_nos
    /\ is_open' = FALSE
    /\ failbit' = (failbit \/ ~is_open)
    /\ events' = Append(events, "close")
    /\ exit_code' = 0
    /\ pc' = "done"
    /\ UNCHANGED <<inputs, item, aggregates, index, file, cerr, runs, opened_runs,
                   file_at_open>>

(***************************************************************************)
(* The command is run again: a new process, the same file on disk.         *)
(***************************************************************************)
NewRun ==
    /\ pc = "done"
    /\ runs < MaxRuns
    /\ runs' = runs + 1
    /\ pc' = "stage"
    /\ item' = 1
    /\ num_failed_tasks' = 0
    /\ ratio' = Zero
    /\ io_time_input' = Zero
    /\ io_time_output' = Zero
    /\ compute_time' = Zero
    /\ is_open' = FALSE
    /\ failbit' = FALSE
    /\ index' = 0
    /\ cerr' = <<>>
    /\ exit_code' = -1
    /\ file_at_open' = <<>>
    /\ events' = <<>>
    /\ UNCHANGED <<inputs, file, opened_runs>>

Next ==
    \/ StageFiles
    \/ StageFilesThrows
    \/ Launch
    \/ LaunchThrows
    \/ AggregateStep
    \/ AggregateDone
    \/ OpenReport
    \/ OpenReportFails
    \/ WriteHeader
    \/ RowStep
    \/ CloseReport
    \/ NewRun

Spec == Init /\ [][Next]_vars

(***************************************************************************)
(* Vocabulary of the properties                                            *)
(***************************************************************************)
IsPrefix(s, t) == Len(s) <= Len(t) /\ SubSeq(t, 1, Len(s)) = s

IsRow(line) == line.kind = "row"

\* this invocation called open and it succeeded / failed
OpenedOk == events # <<>> /\ events[1] = "open"
OpenFailed == events # <<>> /\ events[1] = "open_failed"

\* the lines this invocation has added to the file, and the data rows among them
RunLines == SubSeq(file.lines, Len(file_at_open) + 1, Len(file.lines))
RunRows == SelectSeq(RunLines, IsRow)

CountKind(lines, kind) == Cardinality({i \in DOMAIN lines : lines[i].kind = kind})

\* the aggregation loop has run to its end in this invocation
Aggregated == pc \in {"open", "header", "rows"} \/ (pc = "done" /\ events # <<>>)

\* the marker the specification asks for where a denominator is zero
UndefinedMarker == "undefined"

(***************************************************************************)
(* C1: N successive runs against a report path that starts absent or empty *)
(* leave exactly one header line, as the first line, and N * |hosts| data  *)
(* lines (N counting the runs whose open succeeded); a run writes the      *)
(* header if and only if the file held nothing when the run opened it.     *)
(***************************************************************************)
C1_OneHeaderManyRuns ==
    pc = "done" =>
        /\ file.lines # <<>> => file.lines[1] = HeaderLine
        /\ CountKind(file.lines, "header") = (IF opened_runs >= 1 THEN 1 ELSE 0)
        /\ CountKind(file.lines, "row") = opened_runs * Len(hosts)
        /\ OpenedOk => (CountKind(RunLines, "header") = 1 <=> file_at_open = <<>>)
        /\ OpenedOk => CountKind(RunLines, "header") <= 1

C1_Witness ==
    /\ pc = "done"
    /\ runs = 2
    /\ opened_runs = 2
    /\ Len(hosts) = 2
    /\ Len(file.lines) = 5

(***************************************************************************)
(* C2: a run whose report file opens successfully appends exactly |hosts|  *)
(* data rows, the i-th naming the i-th host of the host list, for every    *)
(* trace, the empty one included, and then returns normally.               *)
(***************************************************************************)
C2_OneRowPerHost ==
    OpenedOk =>
        /\ pc = "rows" => Len(RunRows) = index
        /\ pc = "done" => Len(RunRows) = Len(hosts) /\ exit_code = 0
        /\ Len(RunRows) <= Len(hosts)
        /\ \A i \in DOMAIN RunRows : RunRows[i].host_name = hosts[i].name

C2_Witness ==
    /\ pc = "done"
    /\ OpenedOk
    /\ trace = <<>>
    /\ Len(hosts) = 2
    /\ Len(RunRows) = 2

(***************************************************************************)
(* C3: the report file is append-only: no step of any run truncates the    *)
(* file or rewrites or removes a line it already holds, so the content at  *)
(* open is a prefix of the content at close.                               *)
(***************************************************************************)
C3_AppendOnly == [][IsPrefix(file.lines, file'.lines)]_vars

C3_Witness ==
    /\ pc = "done"
    /\ OpenedOk
    /\ file_at_open # <<>>
    /\ IsPrefix(file_at_open, file.lines)
    /\ Len(file.lines) > Len(file_at_open)

(***************************************************************************)
(* C4: failed_tasks after aggregation is the number of trace entries whose *)
(* task has more than one execution record: 1 per such task whatever the   *)
(* number of records, 0 for a task with one record.                        *)
(***************************************************************************)
C4_FailedTasks ==
    /\ pc = "aggregate" =>
           num_failed_tasks = Cardinality({i \in 1..(item - 1) : Len(trace[i]) > 1})
    /\ Aggregated =>
           num_failed_tasks = Cardinality({i \in DOMAIN trace : Len(trace[i]) > 1})
    /\ OpenedOk =>
           \A i \in DOMAIN RunRows :
               RunRows[i].failed_tasks =
                   ToString(Cardinality({j \in DOMAIN trace : Len(trace[j]) > 1}))

C4_Witness ==
    /\ pc = "done"
    /\ OpenedOk
    /\ \E i, j \in DOMAIN trace : Len(trace[i]) = 3 /\ Len(trace[j]) = 1
    /\ num_failed_tasks = 1

(***************************************************************************)
(* C5: if the report file cannot be opened, the run reports the error on   *)
(* cerr, writes nothing to the file, still runs to the end of main and     *)
(* returns 0 like a run whose open succeeded, and no step taken after the  *)
(* failure changes an aggregate.                                           *)
(***************************************************************************)
C5_OpenFailure ==
    /\ [](OpenFailed =>
            /\ file.lines = file_at_open
            /\ ~is_open
            /\ \E i \in DOMAIN cerr : cerr[i] = "Erro ao abrir o arquivo CSV!"
            /\ pc # "done" => ENABLED (WriteHeader \/ RowStep \/ CloseReport)
            /\ pc = "done" =>
                   /\ exit_code = 0
                   /\ index = Len(hosts)
                   /\ events[Len(events)] = "close")
    /\ [](pc = "done" => exit_code = 0)
    /\ [][OpenFailed' => aggregates' = aggregates]_vars

C5_Witness ==
    /\ pc = "done"
    /\ OpenFailed
    /\ file.lines # <<>>
    /\ trace # <<>>
    /\ exit_code = 0

(***************************************************************************)
(* C6: the reported ratio is the mean of compute_time / (io_input_time +   *)
(* io_output_time) over the tasks whose total I/O time is not zero, and    *)
(* the undefined marker when no task qualifies.                            *)
(***************************************************************************)
Qualifies(hist) == DAdd(IoTimeInput(hist), IoTimeOutput(hist)) # Zero

RECURSIVE QualifyingSum(_)
QualifyingSum(tr) ==
    IF tr = <<>> THEN Zero
    ELSE IF Qualifies(Head(tr)) THEN DAdd(RatioTerm(Head(tr)), QualifyingSum(Tail(tr)))
    ELSE QualifyingSum(Tail(tr))

QualifyingRatio ==
    LET n == Cardinality({i \in DOMAIN trace : Qualifies(trace[i])})
    IN IF n = 0 THEN UndefinedMarker ELSE Fixed2(DDiv(QualifyingSum(trace), FromInt(n)))

C6_RatioOverQualifyingTasks ==
    OpenedOk => \A i \in DOMAIN RunRows : RunRows[i].ratio = QualifyingRatio

(***************************************************************************)
(* C7: every row's power is energy_consumed / completion_date when the     *)
(* completion date is not zero, and the undefined marker when it is zero.  *)
(***************************************************************************)
C7_PowerOrUndefined ==
    OpenedOk =>
        \A i \in DOMAIN RunRows :
            RunRows[i].power =
                IF completion_date # 0
                THEN Fixed2(Fin(hosts[i].energy, completion_date))
                ELSE UndefinedMarker

(***************************************************************************)
(* C8: the compute_time, IO_time_input and IO_time_output of a run's rows  *)
(* are the averages, over all tasks of the trace, of the durations in each *)
(* task's most recent execution record.                                    *)
(***************************************************************************)
RECURSIVE SumOf(_)
SumOf(values) == IF values = <<>> THEN Zero ELSE DAdd(Head(values), SumOf(Tail(values)))

Average(values) == Fixed2(DDiv(SumOf(values), FromInt(Len(values))))

C8_AveragedDurations ==
    OpenedOk /\ trace # <<>> =>
        \A i \in DOMAIN RunRows :
            /\ RunRows[i].compute_time =
                   Average([t \in DOMAIN trace |-> ComputeTime(trace[t])])
            /\ RunRows[i].IO_time_input =
                   Average([t \in DOMAIN trace |-> IoTimeInput(trace[t])])
            /\ RunRows[i].IO_time_output =
                   Average([t \in DOMAIN trace |-> IoTimeOutput(trace[t])])

(***************************************************************************)
(* C9: the calls an invocation makes on the report stream follow           *)
(* Unopened -> Opened -> RowsAppended* -> Closed: one open, then one       *)
(* header decision, then the rows, then one close and nothing after it;    *)
(* an invocation that exits early never touches the stream.                *)
(***************************************************************************)
WriterOrder(ev) ==
    /\ Len(ev) <= 3 + Len(hosts)
    /\ \A i \in DOMAIN ev :
           /\ i = 1 => ev[i] \in {"open", "open_failed"}
           /\ i = 2 => ev[i] \in {"header", "no_header"}
           /\ (i > 2 /\ i <= 2 + Len(hosts)) => ev[i] = "row"
           /\ i = 3 + Len(hosts) => ev[i] = "close"

C9_WriterStateMachine ==
    /\ WriterOrder(events)
    /\ pc \in {"stage", "launch", "aggregate", "open"} => events = <<>> /\ ~is_open
    /\ pc = "header" => Len(events) = 1
    /\ pc = "rows" => Len(events) = 2 + index
    /\ pc = "done" => (events = <<>> \/ Len(events) = 3 + Len(hosts)) /\ ~is_open
    /\ is_open <=> (OpenedOk /\ pc # "done")
    /\ (~OpenedOk /\ events # <<>>) => file.lines = file_at_open
    /\ events = <<>> => file_at_open = <<>>
    /\ OpenedOk =>
           Len(RunLines) = Cardinality({i \in DOMAIN events : events[i] \in {"header", "row"}})

C9_Witness ==
    /\ pc = "done"
    /\ events = <<"open", "header", "row", "row", "close">>
    /\ runs = 1

(***************************************************************************)
(* C10: aggregation is over before the first row is written and the row    *)
(* loop changes no aggregate: the rows of one run agree on runid,          *)
(* num_tasks, trace_size, failed_tasks, the three times, the ratio and the *)
(* completion date, and runid is "extk-" followed by the task count.       *)
(***************************************************************************)
RunWide(row) ==
    <<row.runid, row.num_tasks, row.trace_size, row.failed_tasks, row.compute_time,
      row.IO_time_input, row.IO_time_output, row.ratio, row.completion_date>>

C10_RowsShareRunValues ==
    /\ pc = "aggregate" => events = <<>>
    /\ events # <<>> => item = Len(trace) + 1
    /\ OpenedOk =>
           \A i \in DOMAIN RunRows :
               /\ \A j \in DOMAIN RunRows : RunWide(RunRows[i]) = RunWide(RunRows[j])
               /\ RunRows[i].runid = "extk-" \o ToString(num_tasks_wf)
               /\ RunRows[i].num_tasks = ToString(num_tasks_wf)
               /\ RunRows[i].trace_size = ToString(Len(trace))
               /\ RunRows[i].failed_tasks = ToString(num_failed_tasks)
               /\ RunRows[i].compute_time = Fixed2(compute_time)
               /\ RunRows[i].IO_time_input = Fixed2(io_time_input)
               /\ RunRows[i].IO_time_output = Fixed2(io_time_output)
               /\ RunRows[i].ratio = Fixed2(ratio)

C10_Witness ==
    /\ pc = "done"
    /\ OpenedOk
    /\ Len(trace) = 2
    /\ num_tasks_wf = 3
    /\ Len(RunRows) = 2
    /\ RunRows[1].power # RunRows[2].power
    /\ RunRows[1].num_cores # RunRows[2].num_cores

====
